---- MODULE Spec2Model ----
(***************************************************************************)
(* A model of the manifest-normalisation and file-placement pipeline of    *)
(* openaudible_to_ab.py (move_audio_book_files and the functions it        *)
(* calls).                                                                 *)
(*                                                                         *)
(* Text is a sequence of one-character strings, so that split, strip,      *)
(* sanitize_name and strptime are computed character by character.  A path *)
(* is a sequence of segments (each segment a text); the file system is a   *)
(* function from the paths of the existing files to their content, and a   *)
(* set of existing directories.                                            *)
(***************************************************************************)
EXTENDS Integers, Sequences, FiniteSets, TLC

(***************************************************************************)
(* Bounds of the model.                                                    *)
(***************************************************************************)
\* the longest manifest that is enumerated
MaxBooks == 2
\* the largest byte size of a file that exists in the destination tree
MaxDestSize == 3

(***************************************************************************)
(* Text helpers (Python str methods used by the code).                     *)
(***************************************************************************)
\* JSON null / a key's value None
None == <<"<None>">>

Digits == {"0", "1", "2", "3", "4", "5", "6", "7", "8", "9"}

Letters ==
    {"A", "B", "C", "D", "E", "F", "G", "H", "I", "J", "K", "L", "M",
     "N", "O", "P", "Q", "R", "S", "T", "U", "V", "W", "X", "Y", "Z",
     "a", "b", "c", "d", "e", "f", "g", "h", "i", "j", "k", "l", "m",
     "n", "o", "p", "q", "r", "s", "t", "u", "v", "w", "x", "y", "z"}

\* c.isalnum()
IsAlnum(c) == c \in Letters \cup Digits

\* ch in s
Contains(s, ch) == \E i \in 1..Len(s) : s[i] = ch

\* the positions of ch in s
Positions(s, ch) == {i \in 1..Len(s) : s[i] = ch}

\* the position of the k-th ch in s; 0 for k = 0 and Len(s) + 1 past the last
NthPosition(s, ch, k) ==
    IF k = 0 THEN 0
    ELSE IF k > Cardinality(Positions(s, ch)) THEN Len(s) + 1
    ELSE CHOOSE i \in Positions(s, ch) :
            Cardinality({j \in Positions(s, ch) : j <= i}) = k

\* s.split(ch) for a one-character separator: the list of the parts
SplitOn(s, ch) ==
    [k \in 1..(Cardinality(Positions(s, ch)) + 1) |->
        SubSeq(s, NthPosition(s, ch, k - 1) + 1, NthPosition(s, ch, k) - 1)]

\* s.lstrip() / s.rstrip() / s.strip() (the only whitespace of the model is " ")
LStrip(s) ==
    LET kept == {i \in 1..Len(s) : s[i] # " "}
    IN  IF kept = {} THEN <<>>
        ELSE SubSeq(s, CHOOSE i \in kept : \A j \in kept : i <= j, Len(s))

RStrip(s) ==
    LET kept == {i \in 1..Len(s) : s[i] # " "}
    IN  IF kept = {} THEN <<>>
        ELSE SubSeq(s, 1, CHOOSE i \in kept : \A j \in kept : i >= j)

\* a strip that takes nothing away
Strip_Nothing(s) == s

Strip(s) == RStrip(LStrip(s))

\* s.replace(",", "")
NotComma(c) == c # ","
RemoveCommas(s) == SelectSeq(s, NotComma)

\* a replacement that leaves the spaces as they are
SpacesToUnderscores_Keep(s) == s

\* s.replace(" ", "_")
SpacesToUnderscores(s) == [i \in 1..Len(s) |-> IF s[i] = " " THEN "_" ELSE s[i]]

\* a filter that lets the colon through as well
IsSafe_WithColon(c) == IsAlnum(c) \/ c \in {"_", ".", ":"}

\* "".join([c for c in s if c.isalnum() or c in ("_", ".")])
IsSafe(c) == IsAlnum(c) \/ c \in {"_", "."}
KeepSafe(s) == SelectSeq(s, IsSafe)

\* sanitize_name: commas removed, spaces to underscores, unsafe characters
\* dropped, trailing whitespace stripped
sanitize_name(name) ==
    LET name_without_commas == RemoveCommas(name)
        name_with_underscores == SpacesToUnderscores(name_without_commas)
        sanitized == KeepSafe(name_with_underscores)
    IN  RStrip(sanitized)

(***************************************************************************)
(* Dates: datetime.strptime / strftime / date comparison.                  *)
(***************************************************************************)
DigitVal(c) ==
    CASE c = "0" -> 0 [] c = "1" -> 1 [] c = "2" -> 2 [] c = "3" -> 3
      [] c = "4" -> 4 [] c = "5" -> 5 [] c = "6" -> 6 [] c = "7" -> 7
      [] c = "8" -> 8 [] c = "9" -> 9

DigitChar(n) ==
    CASE n = 0 -> "0" [] n = 1 -> "1" [] n = 2 -> "2" [] n = 3 -> "3"
      [] n = 4 -> "4" [] n = 5 -> "5" [] n = 6 -> "6" [] n = 7 -> "7"
      [] n = 8 -> "8" [] n = 9 -> "9"

\* a non-empty run of decimal digits
IsNum(s) == s # <<>> /\ \A i \in 1..Len(s) : s[i] \in Digits

\* int(s) for a run of at most four digits
NumVal(s) ==
    LET n == Len(s)
        digit(k) == IF n >= k THEN DigitVal(s[n + 1 - k]) ELSE 0
    IN  digit(1) + 10 * digit(2) + 100 * digit(3) + 1000 * digit(4)

IsLeap(y) == (y % 4 = 0 /\ y % 100 # 0) \/ y % 400 = 0

DaysInMonth(y, m) ==
    CASE m \in {1, 3, 5, 7, 8, 10, 12} -> 31
      [] m \in {4, 6, 9, 11} -> 30
      [] m = 2 -> IF IsLeap(y) THEN 29 ELSE 28

\* the days of the year before the first of month m
DaysBeforeMonth(y, m) ==
    <<0, 31, 59, 90, 120, 151, 181, 212, 243, 273, 304, 334>>[m]
    + (IF m > 2 /\ IsLeap(y) THEN 1 ELSE 0)

\* date.toordinal(): the proleptic Gregorian day number
Ordinal(y, m, d) ==
    LET p == y - 1
    IN  p * 365 + (p \div 4) - (p \div 100) + (p \div 400)
        + DaysBeforeMonth(y, m) + d

\* the result of a failed parse
ParseError == [ok |-> FALSE, y |-> 0, m |-> 0, d |-> 0]

\* datetime.strptime(s, "%Y-%m-%d"): %Y is four digits, %m and %d one or two
ParseYMD(s) ==
    IF s = None THEN ParseError
    ELSE
    LET parts == SplitOn(s, "-")
    IN  IF /\ Len(parts) = 3
           /\ \A i \in 1..3 : IsNum(parts[i])
           /\ Len(parts[1]) = 4
           /\ Len(parts[2]) \in 1..2
           /\ Len(parts[3]) \in 1..2
           /\ NumVal(parts[1]) >= 1
           /\ NumVal(parts[2]) \in 1..12
           /\ NumVal(parts[3]) \in 1..DaysInMonth(NumVal(parts[1]), NumVal(parts[2]))
        THEN [ok |-> TRUE, y |-> NumVal(parts[1]), m |-> NumVal(parts[2]),
              d |-> NumVal(parts[3])]
        ELSE ParseError

\* the time part of "%H:%M:%S.%f"
IsHMSf(s) ==
    LET dot == SplitOn(s, ".")
        hms == SplitOn(dot[1], ":")
    IN  /\ Len(dot) = 2
        /\ IsNum(dot[2]) /\ Len(dot[2]) \in 1..6
        /\ Len(hms) = 3
        /\ \A i \in 1..3 : IsNum(hms[i]) /\ Len(hms[i]) \in 1..2
        /\ NumVal(hms[1]) \in 0..23
        /\ NumVal(hms[2]) \in 0..59
        /\ NumVal(hms[3]) \in 0..61

\* datetime.strptime(s, "%Y-%m-%dT%H:%M:%S.%f")
ParseDateTime(s) ==
    LET parts == SplitOn(s, "T")
    IN  IF Len(parts) = 2 /\ ParseYMD(parts[1]).ok /\ IsHMSf(parts[2])
        THEN ParseYMD(parts[1])
        ELSE ParseError

\* %m and %d: two digits; %Y: four digits
Pad2(n) == <<DigitChar((n \div 10) % 10), DigitChar(n % 10)>>
Pad4(n) == Pad2(n \div 100) \o Pad2(n % 100)

\* dt.strftime("%Y-%m-%d")
FormatYMD(dt) == Pad4(dt.y) \o <<"-">> \o Pad2(dt.m) \o <<"-">> \o Pad2(dt.d)

(***************************************************************************)
(* Raw manifest records are functions from key names to values; a value is *)
(* a text or None.                                                         *)
(***************************************************************************)
\* the value an exception slot holds when nothing was raised
NoExc == "none"

\* book_data.get(key, default)
Get(book, key, default) == IF key \in DOMAIN book THEN book[key] ELSE default

\* the truth value of a text or None
Truthy(x) == x # None /\ x # <<>>

\* str(x) as an f-string formats it
Str(x) == IF x = None THEN <<"N", "o", "n", "e">> ELSE x

\* the value of book_data before the first record was normalised
NoBookData == [unbound |-> TRUE]

\* process_open_audible_book_json: [exc, data]
process_open_audible_book_json(book_data) ==
    IF Get(book_data, "author", <<>>) = None
    THEN [exc |-> "AttributeError", data |-> NoBookData]
    ELSE
    LET author_name == Strip(SplitOn(Get(book_data, "author", <<>>), ",")[1])
    IN  [exc |-> NoExc,
         data |-> [asin |-> Get(book_data, "asin", <<>>),
                   author |-> sanitize_name(author_name),
                   description |-> Get(book_data, "summary", <<>>),
                   filename |-> Get(book_data, "filename", None),
                   purchase_date |-> Get(book_data, "purchase_date", None),
                   series |-> Get(book_data, "series_name", <<>>),
                   short_title |-> Get(book_data, "title_short", None),
                   title |-> Get(book_data, "title", None),
                   volumeNumber |-> Get(book_data, "series_sequence", <<>>)]]

\* s.endswith(ch)
EndsWith(s, ch) == s # <<>> /\ s[Len(s)] = ch

\* s.rindex(ch), counted from 0 as Python counts; -1 where Python raises
RIndex(s, ch) ==
    IF Positions(s, ch) = {} THEN -1
    ELSE (CHOOSE i \in Positions(s, ch) : \A j \in Positions(s, ch) : i >= j) - 1

\* s.rsplit(ch, 1)[0]
RSplitHead(s, ch) == IF RIndex(s, ch) < 0 THEN s ELSE SubSeq(s, 1, RIndex(s, ch))

\* a test of the offset delimiter that holds wherever the symbol stands
IsOffsetDelimiter_Always(rindex) == TRUE

\* date_str.rindex(split_symbol) >= 19
IsOffsetDelimiter(rindex) == rindex >= 19

\* _parse_date up to strptime: [exc, text], text being what strptime is given
ParseDateText(date_str) ==
    LET without_z == IF EndsWith(date_str, "Z")
                     THEN SubSeq(date_str, 1, Len(date_str) - 1)
                     ELSE date_str
        split_symbol == IF Contains(without_z, "+") THEN "+" ELSE "-"
        purchase_date == IF IsOffsetDelimiter(RIndex(without_z, split_symbol))
                         THEN RSplitHead(without_z, split_symbol)
                         ELSE without_z
    IN  IF RIndex(without_z, split_symbol) < 0
        THEN [exc |-> "ValueError", text |-> without_z]
        ELSE [exc |-> NoExc,
              text |-> IF Contains(purchase_date, ".") THEN purchase_date
                       ELSE purchase_date \o <<".", "0">>]

\* _parse_date: [exc, text, value]
_parse_date(date_str) ==
    LET t == ParseDateText(date_str)
        purchase_dt == ParseDateTime(t.text)
    IN  IF t.exc # NoExc
        THEN [exc |-> t.exc, text |-> t.text, value |-> <<>>]
        ELSE IF ~purchase_dt.ok
        THEN [exc |-> "ValueError", text |-> t.text, value |-> <<>>]
        ELSE [exc |-> NoExc, text |-> t.text, value |-> FormatYMD(purchase_dt)]

\* the purchase date text that process_libation_book_json hands to strptime
LibationDateText(date_added) ==
    LET cut == IF Contains(date_added, "+") THEN SplitOn(date_added, "+")[1]
               ELSE IF Contains(date_added, "-") THEN SplitOn(date_added, "-")[1]
               ELSE date_added
    IN  IF Contains(cut, ".") THEN cut ELSE cut \o <<".", "0">>

\* process_libation_book_json: [exc, data]
process_libation_book_json(book_data) ==
    LET Title == Get(book_data, "Title", None)
        Subtitle == Get(book_data, "Subtitle", None)
        ProductId == Get(book_data, "AudibleProductId", None)
        SeriesOrder == Get(book_data, "SeriesOrder", None)
        DateAdded == Get(book_data, "DateAdded", None)
        full_title == IF Truthy(Subtitle)
                      THEN Str(Title) \o <<" ", "-", " ">> \o Subtitle
                      ELSE Title
        series_sequence == IF Truthy(SeriesOrder)
                           THEN SplitOn(LStrip(SeriesOrder), " ")[1]
                           ELSE <<>>
        filename == IF Truthy(Subtitle)
                    THEN Str(Title) \o <<":", " ">> \o Subtitle \o <<" ", "[">>
                         \o Str(ProductId) \o <<"]">>
                    ELSE Str(Title) \o <<" ", "[">> \o Str(ProductId) \o <<"]">>
        book_folder == Str(Title) \o <<" ", "[">> \o Str(ProductId) \o <<"]">>
        parsed == ParseDateTime(LibationDateText(DateAdded))
    IN  IF Truthy(Subtitle) /\ Title = None
        THEN [exc |-> "TypeError", data |-> NoBookData]
        ELSE IF Truthy(SeriesOrder) /\ LStrip(SeriesOrder) = <<>>
        THEN [exc |-> "IndexError", data |-> NoBookData]
        ELSE IF DateAdded = None
        THEN [exc |-> "TypeError", data |-> NoBookData]
        ELSE IF ~parsed.ok
        THEN [exc |-> "ValueError", data |-> NoBookData]
        ELSE [exc |-> NoExc,
              data |-> [asin |-> ProductId,
                        author |-> Get(book_data, "AuthorNames", None),
                        description |-> Get(book_data, "Description", None),
                        filename |-> filename,
                        libation_book_folder |-> book_folder,
                        purchase_date |-> FormatYMD(parsed),
                        series |-> Get(book_data, "SeriesNames", <<>>),
                        short_title |-> Title,
                        title |-> full_title,
                        volumeNumber |-> series_sequence]]

(***************************************************************************)
(* The file system: files is a function from the paths of the existing     *)
(* files to their content, dirs the set of the existing directories.       *)
(***************************************************************************)
\* the content of a path that holds no file
NoFile == [size |-> -1, data |-> "absent"]

\* the content of the file at p
ContentAt(fs, p) == IF p \in DOMAIN fs THEN fs[p] ELSE NoFile

\* os.path.exists
Exists(fs, ds, p) == p \in DOMAIN fs \/ p \in ds

\* os.path.getsize
GetSize(fs, p) == IF p \in DOMAIN fs THEN fs[p].size ELSE 0

\* os.path.join(p, seg) for a segment without separators
Join(p, seg) == IF seg = <<>> THEN p ELSE Append(p, seg)

\* p is q or an ancestor of q
IsPrefix(p, q) == Len(p) <= Len(q) /\ SubSeq(q, 1, Len(p)) = p

\* p and its ancestors
Prefixes(p) == {SubSeq(p, 1, k) : k \in 1..Len(p)}

\* the function f without the keys in gone
Without(f, gone) == [q \in DOMAIN f \ gone |-> f[q]]

\* the function f with key p set to v
With(f, p, v) == [q \in DOMAIN f \cup {p} |-> IF q = p THEN v ELSE f[q]]

\* a directory builder that leaves the series directory out
make_directory_structure_NoSeries(author_dir, series_dir, book_title_dir, destination_dir, fs, ds) ==
    LET audio_book_destination_dir == Join(Join(destination_dir, author_dir),
                                           book_title_dir)
    IN  [exc |-> NoExc, path |-> audio_book_destination_dir,
         dirs |-> ds \cup Prefixes(audio_book_destination_dir)]

\* make_directory_structure: [exc, path, dirs]
make_directory_structure(author_dir, series_dir, book_title_dir, destination_dir, fs, ds) ==
    LET with_author == Join(destination_dir, author_dir)
        with_series == IF Truthy(series_dir) THEN Join(with_author, series_dir)
                       ELSE with_author
        audio_book_destination_dir == Join(with_series, book_title_dir)
    IN  IF Exists(fs, ds, audio_book_destination_dir)
        THEN [exc |-> NoExc, path |-> audio_book_destination_dir, dirs |-> ds]
        ELSE IF \E q \in Prefixes(audio_book_destination_dir) : q \in DOMAIN fs
        THEN [exc |-> "NotADirectoryError", path |-> audio_book_destination_dir,
              dirs |-> ds]
        ELSE [exc |-> NoExc, path |-> audio_book_destination_dir,
              dirs |-> ds \cup Prefixes(audio_book_destination_dir)]

\* shutil.move that leaves the source file where it was
ShutilMove_KeepsSource(fs, ds, src, dst) ==
    LET real_dst == IF dst \in ds THEN Join(dst, src[Len(src)]) ELSE dst
    IN  IF dst \in ds /\ Exists(fs, ds, real_dst)
        THEN [exc |-> "shutil.Error", files |-> fs]
        ELSE [exc |-> NoExc, files |-> With(fs, real_dst, fs[src])]

\* shutil.move(src, dst) of a file: [exc, files]
ShutilMove(fs, ds, src, dst) ==
    LET real_dst == IF dst \in ds THEN Join(dst, src[Len(src)]) ELSE dst
    IN  IF dst \in ds /\ Exists(fs, ds, real_dst)
        THEN [exc |-> "shutil.Error", files |-> fs]
        ELSE [exc |-> NoExc, files |-> With(Without(fs, {src}), real_dst, fs[src])]

\* shutil.rmtree(path): [exc, files, dirs]
ShutilRmtree(fs, ds, path) ==
    IF path \notin ds
    THEN [exc |-> "FileNotFoundError", files |-> fs, dirs |-> ds]
    ELSE [exc |-> NoExc,
          files |-> Without(fs, {q \in DOMAIN fs : IsPrefix(path, q)}),
          dirs |-> {q \in ds : ~IsPrefix(path, q)}]

(***************************************************************************)
(* The inputs of a run: the configuration, the clock, the manifest and the *)
(* two directory trees.                                                    *)
(***************************************************************************)
\* --purchased-how-long-ago, default
DefaultPurchasedHowLongAgo == 7

\* the byte size of every file of the source tree
SrcSize == 2

\* --audio-file-extension, default
AudioFileExtension == <<".", "m", "4", "b">>

\* --source-audio-book-directory and --destination-book-directory
SourceDir == <<<<"s", "r", "c">>>>
DestDir == <<<<"d", "s", "t">>>>

\* datetime.now(timezone.utc).date() of the runs that are enumerated
Todays == {Ordinal(2024, 3, 5), Ordinal(2024, 3, 6)}

\* tool-A (OpenAudible) manifest records
BookA1 ==
    [author |-> <<"A", " ", "B", ",", " ", "J">>,
     title |-> <<"T", " ", "C">>,
     title_short |-> <<"T">>,
     asin |-> <<"X", "1">>,
     filename |-> <<"f">>,
     purchase_date |-> <<"2", "0", "2", "4", "-", "0", "2", "-", "2", "7">>,
     series_name |-> <<"S">>]
BookA2 ==
    [author |-> <<"C", " ", "D">>,
     title |-> <<"U">>,
     title_short |-> <<"U">>,
     asin |-> <<"X", "2">>,
     filename |-> <<"g">>,
     purchase_date |-> <<"2", "0", "2", "4", "-", "0", "3", "-", "0", "5">>]
BookA3 ==
    [author |-> <<"C", " ", "D">>,
     title |-> <<"U">>,
     title_short |-> <<"U">>,
     asin |-> <<"X", "2">>,
     filename |-> <<"g">>,
     purchase_date |-> <<"2", "0", "2", "4", "-", "0", "2", "-", "2", "4">>]
BookA4 ==
    [author |-> None,
     title |-> <<"V">>,
     title_short |-> <<"V">>,
     asin |-> <<"X", "4">>,
     filename |-> <<"f">>,
     purchase_date |-> <<"2", "0", "2", "4", "-", "0", "3", "-", "0", "5">>]

\* tool-B (Libation) manifest records
BookB1 ==
    [AudibleProductId |-> <<"P">>,
     AuthorNames |-> <<"L", " ", "A">>,
     Title |-> <<"T">>,
     Subtitle |-> <<"U">>,
     SeriesOrder |-> <<"1", " ", "o">>,
     DateAdded |-> <<"2", "0", "2", "4", "-", "0", "3", "-", "0", "5", "T", "1", "2", ":", "0", "0", ":", "0", "0", ".", "5", "+", "0", "0", ":", "0", "0">>]
BookB2 ==
    [AudibleProductId |-> <<"Q">>,
     AuthorNames |-> <<"L", " ", "A">>,
     Title |-> <<"V", ":", " ", "W">>,
     SeriesNames |-> <<"S">>,
     DateAdded |-> <<"2", "0", "2", "4", "-", "0", "2", "-", "2", "7", "T", "0", "8", ":", "0", "0", ":", "0", "0", "+", "0", "2", ":", "0", "0">>]
BookB3 ==
    [AudibleProductId |-> <<"P">>,
     AuthorNames |-> <<"L", " ", "A">>,
     Title |-> <<"T">>,
     Subtitle |-> <<"U">>,
     DateAdded |-> <<"2", "0", "2", "4", "-", "0", "3", "-", "0", "5", "T", "1", "2", ":", "0", "0", ":", "0", "0", "Z">>]
BookB4 ==
    [AudibleProductId |-> <<"Q">>,
     AuthorNames |-> <<"L", " ", "A">>,
     Title |-> <<"V", ":", " ", "W">>,
     SeriesNames |-> <<"S">>,
     DateAdded |-> <<"2", "0", "2", "4", "-", "0", "2", "-", "2", "4", "T", "0", "8", ":", "0", "0", ":", "0", "0", ".", "0", "+", "0", "0", ":", "0", "0">>]

\* the records a manifest of the given download program is drawn from
BookPool(download_program) ==
    IF download_program = "OpenAudible"
    THEN {BookA1, BookA2, BookA3, BookA4}
    ELSE {BookB1, BookB2, BookB3, BookB4}

\* the audio files the source tool may have written, per download program
SrcA1 == <<<<"s", "r", "c">>, <<"f", ".", "m", "4", "b">>>>
SrcA2 == <<<<"s", "r", "c">>, <<"g", ".", "m", "4", "b">>>>
SrcB1 == <<<<"s", "r", "c">>, <<"T", " ", "[", "P", "]">>, <<"T", ":", " ", "U", " ", "[", "P", "]", ".", "m", "4", "b">>>>
SrcB2 == <<<<"s", "r", "c">>, <<"V", ":", " ", "W", " ", "[", "Q", "]">>, <<"V", ":", " ", "W", " ", "[", "Q", "]", ".", "m", "4", "b">>>>
\* the file of BookB2 under the folder named by the title up to its colon
SrcB2Truncated == <<<<"s", "r", "c">>, <<"V", " ", "[", "Q", "]">>, <<"V", ":", " ", "W", " ", "[", "Q", "]", ".", "m", "4", "b">>>>

SourceCandidates(download_program) ==
    IF download_program = "OpenAudible" THEN {SrcA1, SrcA2}
    ELSE {SrcB1, SrcB2, SrcB2Truncated}

\* the places of the library where an earlier run may have left a file
DstA1 == <<<<"d", "s", "t">>, <<"A", "_", "B">>, <<"S">>, <<"T", "_", "C">>, <<"f", ".", "m", "4", "b">>>>
DstA2 == <<<<"d", "s", "t">>, <<"C", "_", "D">>, <<"U">>, <<"g", ".", "m", "4", "b">>>>
DstB1 == <<<<"d", "s", "t">>, <<"L", "_", "A">>, <<"T", "_", "_", "U">>, <<"T", ":", " ", "U", " ", "[", "P", "]", ".", "m", "4", "b">>>>
DstB2 == <<<<"d", "s", "t">>, <<"L", "_", "A">>, <<"S">>, <<"V", "_", "W">>, <<"V", ":", " ", "W", " ", "[", "Q", "]", ".", "m", "4", "b">>>>

DestCandidates(download_program) ==
    IF download_program = "OpenAudible" THEN {DstA1, DstA2} ELSE {DstB1, DstB2}

\* the manifests of at most MaxBooks records
Manifests(download_program) ==
    UNION {[1..n -> BookPool(download_program)] : n \in 0..MaxBooks}

\* the directories that hold the given files
DirsOf(paths) ==
    UNION {Prefixes(SubSeq(q, 1, Len(q) - 1)) : q \in paths}

VARIABLES
    cfg,              \* the Config object of the run
    today,            \* datetime.now(timezone.utc).date().toordinal()
    manifest_status,  \* what open() and json.load() make of books_json_path
    books,            \* the list json.load returned
    idx,              \* the position of the for loop in books
    pc,               \* "start", "loop", "returned", "exited" or "crashed"
    exit_code,        \* the exit status of the process, -1 while it runs
    files,            \* the files of the source and destination trees
    dirs,             \* the directories of the source and destination trees
    placed,           \* books_to_process_in_audio_bookself
    log,              \* what was written to log_file
    book_data,        \* the local book_data, kept from one iteration to the next
    hist,             \* history: one entry per examined record
    files0,           \* history: files when the run started
    dirs0,            \* history: dirs when the run started
    books_from_audiobookshelf,  \* main: the response get_all_books returned
    most_recent_books,          \* main: the items handed to process_audio_books
    match_idx,        \* the position of process_audio_books in its list
    filter_today,     \* datetime.now(timezone.utc).date() of the catalog filter
    calls,            \* history: the HTTP requests sent, with their outcomes
    uncaught,         \* the exception that ended the process, if one did
    arg,              \* the argument of a function that is called on its own
    ret               \* what that function returned

\* the state of main after move_audio_book_files, apart from pc and exit_code
main_vars == <<books_from_audiobookshelf, most_recent_books, match_idx,
               filter_today, calls>>

\* the state of a function that is called on its own
fn_vars == <<arg, ret>>

vars == <<cfg, today, manifest_status, books, idx, pc, exit_code, files, dirs,
          placed, log, book_data, hist, files0, dirs0,
          books_from_audiobookshelf, most_recent_books, match_idx, filter_today,
          calls, uncaught, arg, ret>>

\* no response yet
NoResponse == [raises |-> FALSE, ok |-> FALSE, body |-> "none", results |-> <<>>]

\* main has not called the library server yet
MainIdle ==
    /\ books_from_audiobookshelf = NoResponse
    /\ most_recent_books = <<>>
    /\ match_idx = 0
    /\ filter_today = 0
    /\ calls = <<>>
    /\ uncaught = NoExc

\* no function is called on its own
FnIdle ==
    /\ arg = <<>>
    /\ ret = <<>>

Init ==
    /\ cfg \in [download_program : {"OpenAudible", "Libation"},
                libation_folder_cleanup : BOOLEAN,
                copy_instead_of_move : BOOLEAN,
                purchased_how_long_ago : {0, DefaultPurchasedHowLongAgo}]
    /\ today \in Todays
    /\ manifest_status \in {"ok", "missing", "invalid_json", "undecodable"}
    /\ books \in (IF manifest_status = "ok" THEN Manifests(cfg.download_program)
                  ELSE {<<>>})
    /\ idx = 0
    /\ pc = "start"
    /\ exit_code = -1
    /\ \E present \in SUBSET SourceCandidates(cfg.download_program) :
       \E old \in SUBSET DestCandidates(cfg.download_program) :
       \E size \in 1..MaxDestSize :
          /\ Cardinality(old) <= 1
          /\ (old = {} => size = 1)
          /\ files = [q \in present \cup old |->
                        IF q \in present THEN [size |-> SrcSize, data |-> "download"]
                        ELSE [size |-> size, data |-> "library"]]
          /\ dirs = {SourceDir, DestDir} \cup DirsOf(present \cup old)
    /\ placed = <<>>
    /\ log = <<>>
    /\ book_data = NoBookData
    /\ hist = <<>>
    /\ files0 = files
    /\ dirs0 = dirs
    /\ MainIdle
    /\ FnIdle

(***************************************************************************)
(* move_audio_book_files.                                                  *)
(***************************************************************************)
\* a reader that takes a missing or invalid manifest for a readable one
ManifestException_Lenient(status) ==
    CASE status = "ok" -> NoExc
      [] status = "missing" -> NoExc
      [] status = "invalid_json" -> NoExc
      [] status = "undecodable" -> "UnicodeDecodeError"

\* what open() and json.load() raise for the manifest file
ManifestException(status) ==
    CASE status = "ok" -> NoExc
      [] status = "missing" -> "IOError"
      [] status = "invalid_json" -> "JSONDecodeError"
      [] status = "undecodable" -> "UnicodeDecodeError"

\* except (IOError, json.JSONDecodeError)
ManifestCaught(exc) == exc \in {"IOError", "JSONDecodeError"}

\* (datetime.now(timezone.utc) - timedelta(days=purchased_how_long_ago)).date()
TargetDate(now, purchased_how_long_ago) == now - purchased_how_long_ago

\* a recency test that also skips the record bought on the threshold date
IsTooOld_Inclusive(purchase_ord, target_date) == purchase_ord <= target_date

\* the recency test: the record is skipped when it holds
IsTooOld(purchase_ord, target_date) == purchase_ord < target_date

\* a test on the candidate source file that never skips
SourceMissing_Never(fs, ds, downloaded_audio_file_path) == FALSE

\* the test on the candidate source file: the record is skipped when it holds
SourceMissing(fs, ds, downloaded_audio_file_path) ==
    ~Exists(fs, ds, downloaded_audio_file_path)

\* the size test of the collision policy: the record is skipped when it holds
NoChange(downloaded_file_size, existing_file_size) ==
    downloaded_file_size < existing_file_size

\* an except clause that names ValueError alone
Caught_OnlyValueError(exc) == exc = "ValueError"

\* except Exception: every exception the loop body raises is caught
Caught(exc) == exc # NoExc

\* the title the except clause logs
ErrorTitle(bd) ==
    IF bd = NoBookData THEN <<"Unknown Book">>
    ELSE Str(Get(bd, "title", <<"Unknown Book">>))

LogEntry(kind, title, exc) == [kind |-> kind, title |-> title, exc |-> exc]

\* what one iteration of the loop leaves behind, and how it ended
Result(outcome, exc, bd, fs, ds, pl, lg, src, dst, ord) ==
    [outcome |-> outcome, exc |-> exc, book_data |-> bd, files |-> fs, dirs |-> ds,
     placed |-> pl, log |-> lg, src_path |-> src, dst_path |-> dst,
     purchase_ord |-> ord]

\* a transfer whose cleanup does not wait for the move to succeed
Transfer_CleanupAnyway(bd, fs, ds, pl, lg, c, src, dst_dir, dst, ord) ==
    LET collides == Exists(fs, ds, dst)
        pl_a == Append(pl, bd.short_title)
        mv == IF Exists(fs, ds, src) THEN ShutilMove(fs, ds, src, dst_dir)
              ELSE [exc |-> NoExc, files |-> fs]
        rm == IF c.download_program = "OpenAudible"
              THEN [exc |-> "UnboundLocalError", files |-> mv.files, dirs |-> ds]
              ELSE ShutilRmtree(mv.files, ds, Append(SourceDir, bd.libation_book_folder))
    IN  IF collides /\ NoChange(GetSize(fs, src), GetSize(fs, dst))
        THEN Result("no_change", NoExc, bd, fs, ds, pl,
                    Append(lg, LogEntry("INFO", Str(bd.title), NoExc)), src, dst, ord)
        ELSE IF ~c.libation_folder_cleanup
        THEN Result(IF mv.exc # NoExc THEN "move_error" ELSE "placed", mv.exc, bd,
                    mv.files, ds, pl_a, lg, src, dst, ord)
        ELSE Result(IF mv.exc # NoExc THEN "move_error" ELSE "placed", mv.exc, bd,
                    rm.files, rm.dirs, pl_a, lg, src, dst, ord)

\* lines 336-360: the collision policy, the transfer and the cleanup
Transfer(bd, fs, ds, pl, lg, c, src, dst_dir, dst, ord) ==
    LET collides == Exists(fs, ds, dst)
        lg_c == IF collides
                THEN lg \o <<LogEntry("replace", Str(bd.title), NoExc),
                             LogEntry("replace", Str(bd.title), NoExc)>>
                ELSE lg
        pl_a == Append(pl, bd.short_title)
        mv == IF Exists(fs, ds, src) THEN ShutilMove(fs, ds, src, dst_dir)
              ELSE [exc |-> NoExc, files |-> fs]
        rm == IF c.download_program = "OpenAudible"
              THEN [exc |-> "UnboundLocalError", files |-> mv.files, dirs |-> ds]
              ELSE ShutilRmtree(mv.files, ds, Append(SourceDir, bd.libation_book_folder))
    IN  IF collides /\ NoChange(GetSize(fs, src), GetSize(fs, dst))
        THEN Result("no_change", NoExc, bd, fs, ds, pl,
                    Append(lg, LogEntry("INFO", Str(bd.title), NoExc)), src, dst, ord)
        ELSE IF mv.exc # NoExc
        THEN Result("move_error", mv.exc, bd, fs, ds, pl_a, lg_c, src, dst, ord)
        ELSE IF ~c.libation_folder_cleanup
        THEN Result("placed", NoExc, bd, mv.files, ds, pl_a,
                    Append(lg_c, LogEntry("INFO", Str(bd.title), NoExc)), src, dst, ord)
        ELSE IF rm.exc # NoExc
        THEN Result("cleanup_error", rm.exc, bd, mv.files, ds, pl_a, lg_c, src, dst, ord)
        ELSE Result("placed", NoExc, bd, rm.files, rm.dirs, pl_a,
                    Append(lg_c, LogEntry("INFO", Str(bd.title), NoExc)), src, dst, ord)

\* lines 310-334: the recency filter and the source and destination paths
Place(bd, fs, ds, pl, lg, c, now) ==
    LET pd == ParseYMD(bd.purchase_date)
        ord == Ordinal(pd.y, pd.m, pd.d)
        author_dir == sanitize_name(bd.author)
        series_dir == IF Truthy(bd.series) THEN sanitize_name(bd.series) ELSE <<>>
        book_title_dir == sanitize_name(bd.title)
        audio_file_name == bd.filename \o AudioFileExtension
        src == IF c.download_program = "OpenAudible"
               THEN Join(SourceDir, audio_file_name)
               ELSE Join(Append(SourceDir, bd.libation_book_folder), audio_file_name)
        mk == make_directory_structure(author_dir, series_dir, book_title_dir,
                                       DestDir, fs, ds)
        dst == Join(mk.path, audio_file_name)
    IN  IF ~pd.ok
        THEN Result("date_error", IF bd.purchase_date = None THEN "TypeError"
                                  ELSE "ValueError",
                    bd, fs, ds, pl, lg, <<>>, <<>>, 0)
        ELSE IF IsTooOld(ord, TargetDate(now, c.purchased_how_long_ago))
        THEN Result("too_old", NoExc, bd, fs, ds, pl, lg, <<>>, <<>>, ord)
        ELSE IF bd.author = None \/ bd.title = None
        THEN Result("path_error", "AttributeError", bd, fs, ds, pl, lg, <<>>, <<>>, ord)
        ELSE IF bd.filename = None
        THEN Result("path_error", "TypeError", bd, fs, ds, pl, lg, <<>>, <<>>, ord)
        ELSE IF SourceMissing(fs, ds, src)
        THEN Result("no_source", NoExc, bd, fs, ds, pl, lg, src, <<>>, ord)
        ELSE IF mk.exc # NoExc
        THEN Result("mkdir_error", mk.exc, bd, fs, ds, pl, lg, src, <<>>, ord)
        ELSE Transfer(bd, fs, mk.dirs, pl, lg, c, src, mk.path, dst, ord)

\* lines 298-360: the body of the try statement for one manifest record
LoopBody(book, bd_prev, fs, ds, pl, lg, c, now) ==
    LET openaudible == c.download_program = "OpenAudible"
        norm == IF openaudible THEN process_open_audible_book_json(book)
                ELSE process_libation_book_json(book)
        lg_raw == IF openaudible THEN lg ELSE Append(lg, LogEntry("dump", <<>>, NoExc))
        lg_norm == IF openaudible THEN lg
                   ELSE Append(lg_raw, LogEntry("dump", <<>>, NoExc))
    IN  IF norm.exc # NoExc
        THEN Result("norm_error", norm.exc, bd_prev, fs, ds, pl, lg_raw, <<>>, <<>>, 0)
        ELSE Place(norm.data, fs, ds, pl, lg_norm, c, now)

\* lines 285-291: the manifest is read, or the process ends
ReadManifest ==
    /\ pc = "start"
    /\ LET exc == ManifestException(manifest_status)
       IN  IF exc = NoExc
           THEN /\ pc' = "loop"
                /\ idx' = 1
                /\ UNCHANGED <<exit_code, log, uncaught>>
           ELSE IF ManifestCaught(exc)
           THEN /\ pc' = "exited"
                /\ exit_code' = 1
                /\ log' = Append(log, LogEntry("manifest", <<>>, exc))
                /\ UNCHANGED <<idx, uncaught>>
           ELSE /\ pc' = "crashed"
                /\ exit_code' = 1
                /\ uncaught' = exc
                /\ UNCHANGED <<idx, log>>
    /\ UNCHANGED <<cfg, today, manifest_status, books, files, dirs, placed,
                   book_data, hist, files0, dirs0>>
    /\ UNCHANGED <<main_vars, fn_vars>>

\* lines 297-369: one iteration of the for loop, with its except clause
ProcessBook ==
    /\ pc = "loop"
    /\ idx <= Len(books)
    /\ \E r \in {LoopBody(books[idx], book_data, files, dirs, placed, log, cfg, today)} :
       LET raised == r.exc # NoExc
       IN  /\ files' = r.files
           /\ dirs' = r.dirs
           /\ placed' = r.placed
           /\ book_data' = r.book_data
           /\ hist' = Append(hist,
                  [idx |-> idx, outcome |-> r.outcome, exc |-> r.exc,
                   src_path |-> r.src_path, dst_path |-> r.dst_path,
                   purchase_ord |-> r.purchase_ord,
                   listed |-> Len(r.placed) > Len(placed),
                   files_before |-> files, dirs_before |-> dirs,
                   files_after |-> r.files, dirs_after |-> r.dirs,
                   log_before |-> Len(log)])
           /\ IF raised /\ ~Caught(r.exc)
              THEN /\ pc' = "crashed"
                   /\ exit_code' = 1
                   /\ uncaught' = r.exc
                   /\ log' = r.log
                   /\ UNCHANGED idx
              ELSE /\ log' = IF raised
                             THEN Append(r.log, LogEntry("ERROR", ErrorTitle(r.book_data),
                                                         r.exc))
                             ELSE r.log
                   /\ idx' = idx + 1
                   /\ UNCHANGED <<pc, exit_code, uncaught>>
    /\ UNCHANGED <<cfg, today, manifest_status, books, files0, dirs0>>
    /\ UNCHANGED <<main_vars, fn_vars>>

\* line 371: the loop is over and the list is returned
Return ==
    /\ pc = "loop"
    /\ idx > Len(books)
    /\ pc' = "returned"
    /\ UNCHANGED <<cfg, today, manifest_status, books, idx, exit_code, files, dirs,
                   placed, log, book_data, hist, files0, dirs0>>
    /\ UNCHANGED <<main_vars, uncaught, fn_vars>>

Next == ReadManifest \/ ProcessBook \/ Return

Spec == Init /\ [][Next]_vars

(***************************************************************************)
(* main after move_audio_book_files: the rescan, the catalog, the filter   *)
(* and the match requests.                                                 *)
(***************************************************************************)
\* the longest catalog the library server answers with
MaxCatalog == 2

\* the timezone-aware date of a timestamp; addedAt is held as seconds and
\* milliseconds, addedAt = 1000 * s + ms
DateOfTimestamp(addedAt) == Ordinal(1970, 1, 1) + (addedAt.s \div 86400)

\* the timestamp of an hour of a day
TimestampOf(y, m, d, seconds_of_day, ms) ==
    [s |-> (Ordinal(y, m, d) - Ordinal(1970, 1, 1)) * 86400 + seconds_of_day,
     ms |-> ms]

\* library items as the server lists them
ItemU ==
    [id |-> <<"i", "1">>,
     addedAt |-> TimestampOf(2024, 3, 5, 36000, 0),
     media |-> [metadata |-> [title |-> <<"U">>,
                              authorName |-> <<"C", " ", "D">>,
                              asin |-> None]]]
ItemTU ==
    [id |-> <<"i", "2">>,
     addedAt |-> TimestampOf(2024, 2, 27, 86399, 999),
     media |-> [metadata |-> [title |-> <<"T", ":", " ", "U">>,
                              authorName |-> <<"L", " ", "A">>,
                              asin |-> <<"O">>]]]

CatalogItemPool == {ItemU, ItemTU}

\* the catalogs of at most MaxCatalog items
Catalogs == UNION {[1..n -> CatalogItemPool] : n \in 0..MaxCatalog}

\* what requests.post may come to: an answer, an error status, no connection
HttpOutcomes == {"ok", "http_error", "connection_error"}

\* what requests.get of the catalog may come to
CatalogResponses ==
    {[raises |-> TRUE, ok |-> FALSE, body |-> "none", results |-> <<>>],
     [raises |-> FALSE, ok |-> FALSE, body |-> "not_json", results |-> <<>>],
     [raises |-> FALSE, ok |-> FALSE, body |-> "other_json", results |-> <<>>]}
    \cup {[raises |-> FALSE, ok |-> TRUE, body |-> "results", results |-> c] :
            c \in Catalogs}

\* a Python value of book_list with its type
ToPy(x) == IF x = None THEN [py |-> "NoneType", v |-> x] ELSE [py |-> "str", v |-> x]

\* json_response.json()["results"]: the exception it raises, if any
ResultsException(json_response) ==
    CASE json_response.body = "results" -> NoExc
      [] json_response.body = "other_json" -> "KeyError"
      [] OTHER -> "JSONDecodeError"

\* a in b, for two texts
IsSubstring(a, b) ==
    \E k \in 0..(Len(b) - Len(a)) : SubSeq(b, k + 1, k + Len(a)) = a

\* a recency test of the catalog that drops the item added on the threshold date
IsRecent_Strict(added, target_date) == added > target_date

\* the recency test of the catalog: the item is kept when it holds
IsRecent(added, target_date) == added >= target_date

\* the items one dict of book_list selects, with its asin written into them
MatchesOfBook(book, results) ==
    LET Matches(item) == IsSubstring(book.title, item.media.metadata.title)
        hits == SelectSeq(results, Matches)
    IN  [k \in 1..Len(hits) |->
            [hits[k] EXCEPT !.media.metadata.asin = book.asin]]

RECURSIVE MatchesOfBooks(_, _)
\* the loop over book_list, for a list of dicts
MatchesOfBooks(book_list, results) ==
    IF book_list = <<>> THEN <<>>
    ELSE MatchesOfBook(book_list[1].v, results)
         \o MatchesOfBooks(Tail(book_list), results)

\* get_audio_bookshelf_recent_books: [exc, items]
get_audio_bookshelf_recent_books(json_response, days_ago, book_list, now) ==
    LET days == IF book_list # <<>> THEN 0 ELSE days_ago
        target_date == now - days
        Recent(item) == IsRecent(DateOfTimestamp(item.addedAt), target_date)
        exc == ResultsException(json_response)
    IN  IF days > 0
        THEN IF exc # NoExc THEN [exc |-> exc, items |-> <<>>]
             ELSE [exc |-> NoExc, items |-> SelectSeq(json_response.results, Recent)]
        ELSE IF book_list = <<>> THEN [exc |-> NoExc, items |-> <<>>]
        ELSE IF exc # NoExc THEN [exc |-> exc, items |-> <<>>]
        ELSE IF json_response.results = <<>> THEN [exc |-> NoExc, items |-> <<>>]
        ELSE IF \E k \in 1..Len(book_list) : book_list[k].py # "dict"
        THEN [exc |-> "TypeError", items |-> <<>>]
        ELSE [exc |-> NoExc, items |-> MatchesOfBooks(book_list, json_response.results)]

\* the records a manifest of a whole run is drawn from
MainBookPool(download_program) ==
    IF download_program = "OpenAudible" THEN {BookA2, BookA3, BookA4}
    ELSE {BookB1, BookB3, BookB4}

InitMain ==
    /\ cfg \in [download_program : {"OpenAudible", "Libation"},
                libation_folder_cleanup : {FALSE},
                copy_instead_of_move : {FALSE},
                purchased_how_long_ago : {0, DefaultPurchasedHowLongAgo}]
    /\ today \in Todays
    /\ manifest_status \in {"ok", "missing", "invalid_json", "undecodable"}
    /\ books \in (IF manifest_status = "ok"
                  THEN UNION {[1..n -> MainBookPool(cfg.download_program)] :
                                n \in 0..MaxBooks}
                  ELSE {<<>>})
    /\ idx = 0
    /\ pc = "start"
    /\ exit_code = -1
    /\ files = [q \in (IF cfg.download_program = "OpenAudible" THEN {SrcA2}
                       ELSE {SrcB1, SrcB2})
                  |-> [size |-> SrcSize, data |-> "download"]]
    /\ dirs = {SourceDir, DestDir} \cup DirsOf(DOMAIN files)
    /\ placed = <<>>
    /\ log = <<>>
    /\ book_data = NoBookData
    /\ hist = <<>>
    /\ files0 = files
    /\ dirs0 = dirs
    /\ MainIdle
    /\ FnIdle

\* the process ends with a traceback
Crash(exc) ==
    /\ pc' = "crashed"
    /\ exit_code' = 1
    /\ uncaught' = exc

\* a record of an HTTP request
Call(call, id, asin, outcome) ==
    [call |-> call, id |-> id, asin |-> asin, outcome |-> outcome]

\* a main that triggers the rescan while the manifest is still being processed
ScanLibrary_DuringPlacement ==
    /\ pc \in {"loop", "returned"}
    /\ \E outcome \in HttpOutcomes :
          /\ calls' = Append(calls, Call("scan", <<>>, <<>>, outcome))
          /\ log' = Append(log, LogEntry("scan", <<>>, NoExc))
          /\ IF outcome = "connection_error"
             THEN Crash("ConnectionError")
             ELSE pc' = "scanned" /\ UNCHANGED <<exit_code, uncaught>>
    /\ UNCHANGED <<cfg, today, manifest_status, books, idx, files, dirs, placed,
                   book_data, hist, files0, dirs0>>
    /\ UNCHANGED <<books_from_audiobookshelf, most_recent_books, match_idx,
                   filter_today, fn_vars>>

\* main lines 398-400: scan_library_for_books
ScanLibrary ==
    /\ pc = "returned"
    /\ \E outcome \in HttpOutcomes :
          /\ calls' = Append(calls, Call("scan", <<>>, <<>>, outcome))
          /\ log' = Append(log, LogEntry("scan", <<>>, NoExc))
          /\ IF outcome = "connection_error"
             THEN Crash("ConnectionError")
             ELSE pc' = "scanned" /\ UNCHANGED <<exit_code, uncaught>>
    /\ UNCHANGED <<cfg, today, manifest_status, books, idx, files, dirs, placed,
                   book_data, hist, files0, dirs0>>
    /\ UNCHANGED <<books_from_audiobookshelf, most_recent_books, match_idx,
                   filter_today, fn_vars>>

\* main lines 403-409: get_all_books
GetAllBooks ==
    /\ pc = "scanned"
    /\ \E response \in CatalogResponses :
          /\ calls' = Append(calls, Call("get", <<>>, <<>>,
                                         IF response.raises THEN "connection_error"
                                         ELSE IF response.ok THEN "ok"
                                         ELSE "http_error"))
          /\ log' = Append(log, LogEntry("fetch", <<>>, NoExc))
          /\ IF response.raises
             THEN Crash("ConnectionError") /\ UNCHANGED books_from_audiobookshelf
             ELSE /\ books_from_audiobookshelf' = response
                  /\ pc' = "fetched"
                  /\ UNCHANGED <<exit_code, uncaught>>
    /\ UNCHANGED <<cfg, today, manifest_status, books, idx, files, dirs, placed,
                   book_data, hist, files0, dirs0>>
    /\ UNCHANGED <<most_recent_books, match_idx, filter_today, fn_vars>>

\* main lines 410-415: get_audio_bookshelf_recent_books on the returned list
FilterRecentBooks ==
    /\ pc = "fetched"
    /\ \E now \in {today, today + 1} :
       \E r \in {get_audio_bookshelf_recent_books(
                    books_from_audiobookshelf, cfg.purchased_how_long_ago,
                    [k \in 1..Len(placed) |-> ToPy(placed[k])], now)} :
          /\ filter_today' = now
          /\ log' = IF placed = <<>> /\ cfg.purchased_how_long_ago = 0 THEN log
                    ELSE Append(log, LogEntry("filter", <<>>, NoExc))
          /\ IF r.exc # NoExc
             THEN Crash(r.exc) /\ UNCHANGED <<most_recent_books, match_idx>>
             ELSE /\ most_recent_books' = r.items
                  /\ match_idx' = 1
                  /\ pc' = "matching"
                  /\ UNCHANGED <<exit_code, uncaught>>
    /\ UNCHANGED <<cfg, today, manifest_status, books, idx, files, dirs, placed,
                   book_data, hist, files0, dirs0>>
    /\ UNCHANGED <<books_from_audiobookshelf, calls, fn_vars>>

\* process_audio_books, lines 105-138: one item of the loop
MatchBook ==
    /\ pc = "matching"
    /\ match_idx <= Len(most_recent_books)
    /\ \E outcome \in HttpOutcomes :
       LET item == most_recent_books[match_idx]
       IN  /\ calls' = Append(calls, Call("match", item.id,
                                          item.media.metadata.asin, outcome))
           /\ IF outcome = "connection_error"
              THEN Crash("ConnectionError") /\ UNCHANGED <<match_idx, log>>
              ELSE /\ match_idx' = match_idx + 1
                   /\ log' = IF outcome = "ok"
                             THEN Append(log, LogEntry("matched",
                                                       item.media.metadata.title,
                                                       NoExc))
                             ELSE log
                   /\ UNCHANGED <<pc, exit_code, uncaught>>
    /\ UNCHANGED <<cfg, today, manifest_status, books, idx, files, dirs, placed,
                   book_data, hist, files0, dirs0>>
    /\ UNCHANGED <<books_from_audiobookshelf, most_recent_books, filter_today,
                   fn_vars>>

\* main line 419: the log is closed and the process ends
CloseLog ==
    /\ pc = "matching"
    /\ match_idx > Len(most_recent_books)
    /\ pc' = "closed"
    /\ exit_code' = 0
    /\ UNCHANGED <<cfg, today, manifest_status, books, idx, files, dirs, placed,
                   log, book_data, hist, files0, dirs0>>
    /\ UNCHANGED <<main_vars, uncaught, fn_vars>>

NextMain ==
    \/ ReadManifest
    \/ ProcessBook
    \/ Return
    \/ ScanLibrary
    \/ GetAllBooks
    \/ FilterRecentBooks
    \/ MatchBook
    \/ CloseLog

SpecMain == InitMain /\ [][NextMain]_vars

(***************************************************************************)
(* Functions called on their own: the date normalisers.                    *)
(***************************************************************************)
\* the move_audio_book_files state of a run that calls one function only
MoveIdle ==
    /\ cfg = [download_program |-> "Libation", libation_folder_cleanup |-> FALSE,
              copy_instead_of_move |-> FALSE,
              purchased_how_long_ago |-> DefaultPurchasedHowLongAgo]
    /\ today = Ordinal(2024, 3, 5)
    /\ manifest_status = "ok"
    /\ books = <<>>
    /\ idx = 0
    /\ exit_code = -1
    /\ files = <<>>
    /\ dirs = {SourceDir, DestDir}
    /\ placed = <<>>
    /\ log = <<>>
    /\ book_data = NoBookData
    /\ hist = <<>>
    /\ files0 = files
    /\ dirs0 = dirs

\* the parts a date/time text YYYY-MM-DDTHH:MM:SS[.f][Z|+HH:MM|-HH:MM] is made of
DatePartPool ==
    {<<"2", "0", "2", "4", "-", "0", "2", "-", "2", "9">>,
     <<"2", "0", "2", "4", "-", "0", "3", "-", "0", "5">>,
     <<"2", "0", "2", "3", "-", "1", "2", "-", "3", "1">>,
     <<"2", "0", "2", "4", "-", "0", "1", "-", "0", "1">>}
TimePartPool ==
    {<<"1", "2", ":", "0", "0", ":", "0", "0">>,
     <<"2", "3", ":", "5", "9", ":", "5", "9">>,
     <<"0", "0", ":", "0", "0", ":", "0", "0">>}
FractionPool ==
    {<<>>,
     <<".", "5">>,
     <<".", "1", "7", "4">>,
     <<".", "1", "2", "3", "4", "5", "6">>}
SuffixPool ==
    {<<>>,
     <<"Z">>,
     <<"+", "0", "0", ":", "0", "0">>,
     <<"+", "0", "5", ":", "3", "0">>,
     <<"-", "0", "5", ":", "0", "0">>,
     <<"-", "0", "8", ":", "0", "0">>}

\* the arguments the date normalisers are called with, by their parts
DateArgs == [date : DatePartPool, time : TimePartPool, frac : FractionPool,
             suffix : SuffixPool]

\* the text of an argument
DateStr(a) == a.date \o <<"T">> \o a.time \o a.frac \o a.suffix

\* a tool-B manifest record with the given DateAdded
LibationRecord(date_added) ==
    [AudibleProductId |-> <<"P">>,
     AuthorNames |-> <<"L", " ", "A">>,
     Title |-> <<"T">>,
     DateAdded |-> date_added]

InitDate ==
    /\ MoveIdle
    /\ MainIdle
    /\ pc = "fn_date"
    /\ arg \in DateArgs
    /\ ret = <<>>

\* _parse_date(DateAdded)
CallParseDate ==
    /\ pc = "fn_date"
    /\ ret' = [parse |-> _parse_date(DateStr(arg))]
    /\ pc' = "fn_date_parsed"
    /\ UNCHANGED <<cfg, today, manifest_status, books, idx, exit_code, files, dirs,
                   placed, log, book_data, hist, files0, dirs0>>
    /\ UNCHANGED <<main_vars, uncaught, arg>>

\* process_libation_book_json of a record with the same DateAdded
CallProcessLibation ==
    /\ pc = "fn_date_parsed"
    /\ ret' = [parse |-> ret.parse,
               libation |-> process_libation_book_json(LibationRecord(DateStr(arg)))]
    /\ pc' = "fn_done"
    /\ UNCHANGED <<cfg, today, manifest_status, books, idx, exit_code, files, dirs,
                   placed, log, book_data, hist, files0, dirs0>>
    /\ UNCHANGED <<main_vars, uncaught, arg>>

NextDate == CallParseDate \/ CallProcessLibation

SpecDate == InitDate /\ [][NextDate]_vars

(***************************************************************************)
(* Runs of one tool-A record whose author field is drawn from a pool.      *)
(***************************************************************************)
\* the longest author text that is enumerated
MaxAuthorLen == 4

\* the characters the author texts are made of
AuthorAlphabet == {"J", " ", ",", ".", "-"}

\* the author of the record of test_open_audible_processing
TestAuthorJr == <<"T", "e", "s", "t", " ", "A", "u", "t", "h", "o", "r", ",", " ", "J", "r", ".">>

\* the raw author fields
AuthorArgs ==
    UNION {[1..n -> AuthorAlphabet] : n \in 0..MaxAuthorLen} \cup {TestAuthorJr}

\* a tool-A manifest record with the given author, bought today
AuthorRecord(author) ==
    [author |-> author,
     title |-> <<"U">>,
     title_short |-> <<"U">>,
     asin |-> <<"X", "2">>,
     filename |-> <<"g">>,
     purchase_date |-> <<"2", "0", "2", "4", "-", "0", "3", "-", "0", "5">>]

InitAuthor ==
    /\ cfg = [download_program |-> "OpenAudible", libation_folder_cleanup |-> FALSE,
              copy_instead_of_move |-> FALSE,
              purchased_how_long_ago |-> DefaultPurchasedHowLongAgo]
    /\ today = Ordinal(2024, 3, 5)
    /\ manifest_status = "ok"
    /\ arg \in AuthorArgs
    /\ books = <<AuthorRecord(arg)>>
    /\ idx = 0
    /\ pc = "start"
    /\ exit_code = -1
    /\ files = [q \in {SrcA2} |-> [size |-> SrcSize, data |-> "download"]]
    /\ dirs = {SourceDir, DestDir}
    /\ placed = <<>>
    /\ log = <<>>
    /\ book_data = NoBookData
    /\ hist = <<>>
    /\ files0 = files
    /\ dirs0 = dirs
    /\ MainIdle
    /\ ret = <<>>

SpecAuthor == InitAuthor /\ [][Next]_vars

(***************************************************************************)
(* sanitize_name on its own, and a run of one tool-A record whose author,  *)
(* series and title are the same name.                                     *)
(***************************************************************************)
\* the longest name that is enumerated
MaxNameLen == 3

\* the characters the names are made of
NameAlphabet == {"a", "1", " ", ",", ".", "_", "/", ":", "!"}

\* the names of test_sanitize_name
TestNames ==
    {<<"N", "a", "m", "e", ",", " ", "w", "i", "t", "h", " ", "c", "o", "m", "m", "a", "s">>,
     <<"N", "a", "m", "e", " ", "w", "i", "t", "h", " ", "s", "p", "a", "c", "e", "s">>,
     <<"N", "a", "m", "e", ".", "w", "i", "t", "h", ".", "p", "e", "r", "i", "o", "d", "s">>,
     <<"N", "a", "m", "e", "_", "w", "i", "t", "h", "_", "u", "n", "d", "e", "r", "s", "c", "o", "r", "e", "s">>,
     <<"N", "a", "m", "e", " ", "i", "n", "v", "a", "l", "i", "d", " ", "c", "h", "a", "r", "a", "c", "t", "e", "r", "s", "!">>,
     <<"N", "a", "m", "e", " ", "w", "i", "t", "h", " ", "t", "r", "a", "i", "l", "i", "n", "g", " ", "s", "p", "a", "c", "e", "s", " ", " ", " ">>}

\* the arguments of sanitize_name
NameArgs == UNION {[1..n -> NameAlphabet] : n \in 0..MaxNameLen} \cup TestNames

\* a tool-A manifest record named by the given text, bought today
NameRecord(name) ==
    [author |-> name,
     title |-> name,
     title_short |-> name,
     series_name |-> name,
     asin |-> <<"X", "2">>,
     filename |-> <<"g">>,
     purchase_date |-> <<"2", "0", "2", "4", "-", "0", "3", "-", "0", "5">>]

InitSanitize ==
    /\ cfg = [download_program |-> "OpenAudible", libation_folder_cleanup |-> FALSE,
              copy_instead_of_move |-> FALSE,
              purchased_how_long_ago |-> DefaultPurchasedHowLongAgo]
    /\ today = Ordinal(2024, 3, 5)
    /\ manifest_status = "ok"
    /\ arg \in NameArgs
    /\ books = <<NameRecord(arg)>>
    /\ idx = 0
    /\ pc = "fn_sanitize"
    /\ exit_code = -1
    /\ files = [q \in {SrcA2} |-> [size |-> SrcSize, data |-> "download"]]
    /\ dirs = {SourceDir, DestDir}
    /\ placed = <<>>
    /\ log = <<>>
    /\ book_data = NoBookData
    /\ hist = <<>>
    /\ files0 = files
    /\ dirs0 = dirs
    /\ MainIdle
    /\ ret = <<>>

\* sanitize_name(name), then the run starts
CallSanitize ==
    /\ pc = "fn_sanitize"
    /\ ret' = [value |-> sanitize_name(arg)]
    /\ pc' = "start"
    /\ UNCHANGED <<cfg, today, manifest_status, books, idx, exit_code, files, dirs,
                   placed, log, book_data, hist, files0, dirs0>>
    /\ UNCHANGED <<main_vars, uncaught, arg>>

NextSanitize == CallSanitize \/ ReadManifest \/ ProcessBook \/ Return

SpecSanitize == InitSanitize /\ [][NextSanitize]_vars

(***************************************************************************)
(* make_directory_structure called twice with the same arguments.          *)
(***************************************************************************)
\* the arguments of make_directory_structure; None is the absent series
MkdirArgs ==
    [author_dir : {<<"A">>, <<"B">>},
     series_dir : {<<>>, None, <<"S">>},
     book_title_dir : {<<"T">>, <<"U">>}]

\* the directories an earlier run may have left under the destination
MkdirLeftovers ==
    {Join(Join(Join(DestDir, a.author_dir),
               IF Truthy(a.series_dir) THEN a.series_dir ELSE <<>>),
          a.book_title_dir) : a \in MkdirArgs}
    \cup {Join(DestDir, a.author_dir) : a \in MkdirArgs}

InitMkdir ==
    /\ cfg = [download_program |-> "OpenAudible", libation_folder_cleanup |-> FALSE,
              copy_instead_of_move |-> FALSE,
              purchased_how_long_ago |-> DefaultPurchasedHowLongAgo]
    /\ today = Ordinal(2024, 3, 5)
    /\ manifest_status = "ok"
    /\ books = <<>>
    /\ idx = 0
    /\ pc = "fn_mkdir"
    /\ exit_code = -1
    /\ arg \in MkdirArgs
    /\ \E left \in SUBSET MkdirLeftovers :
       \E blocked \in BOOLEAN :
          /\ Cardinality(left) <= 1
          /\ blocked => left = {}
          /\ files = IF blocked
                     THEN [q \in {Join(DestDir, <<"A">>)} |->
                              [size |-> 1, data |-> "library"]]
                     ELSE <<>>
          /\ dirs = {SourceDir, DestDir} \cup UNION {Prefixes(q) : q \in left}
    /\ placed = <<>>
    /\ log = <<>>
    /\ book_data = NoBookData
    /\ hist = <<>>
    /\ files0 = files
    /\ dirs0 = dirs
    /\ MainIdle
    /\ ret = <<>>

\* make_directory_structure(author_dir, series_dir, book_title_dir, dest)
CallMakeDirectoryStructure ==
    /\ pc = "fn_mkdir"
    /\ \E r \in {make_directory_structure(arg.author_dir, arg.series_dir,
                                          arg.book_title_dir, DestDir, files, dirs)} :
          /\ ret' = <<[exc |-> r.exc, path |-> r.path, dirs |-> r.dirs]>>
          /\ dirs' = r.dirs
    /\ pc' = "fn_mkdir_again"
    /\ UNCHANGED <<cfg, today, manifest_status, books, idx, exit_code, files,
                   placed, log, book_data, hist, files0, dirs0>>
    /\ UNCHANGED <<main_vars, uncaught, arg>>

\* the same call once more
CallMakeDirectoryStructureAgain ==
    /\ pc = "fn_mkdir_again"
    /\ \E r \in {make_directory_structure(arg.author_dir, arg.series_dir,
                                          arg.book_title_dir, DestDir, files, dirs)} :
          /\ ret' = Append(ret, [exc |-> r.exc, path |-> r.path, dirs |-> r.dirs])
          /\ dirs' = r.dirs
    /\ pc' = "fn_done"
    /\ UNCHANGED <<cfg, today, manifest_status, books, idx, exit_code, files,
                   placed, log, book_data, hist, files0, dirs0>>
    /\ UNCHANGED <<main_vars, uncaught, arg>>

NextMkdir == CallMakeDirectoryStructure \/ CallMakeDirectoryStructureAgain

SpecMkdir == InitMkdir /\ [][NextMkdir]_vars

(***************************************************************************)
(* move_audio_book_files on a Libation subfolder that holds two audio      *)
(* files: the book with its subtitle and the book without it.              *)
(***************************************************************************)
\* BookB1 without its subtitle: the same folder, another file name
BookB5 ==
    [AudibleProductId |-> <<"P">>,
     AuthorNames |-> <<"L", " ", "A">>,
     Title |-> <<"T">>,
     DateAdded |-> <<"2", "0", "2", "4", "-", "0", "3", "-", "0", "5", "T", "1", "2", ":", "0", "0", ":", "0", "0", ".", "5", "+", "0", "0", ":", "0", "0">>]

\* the audio file of BookB5, next to the file of BookB1
SrcB5 == <<<<"s", "r", "c">>, <<"T", " ", "[", "P", "]">>, <<"T", " ", "[", "P", "]", ".", "m", "4", "b">>>>

InitShared ==
    /\ cfg \in [download_program : {"Libation"},
                libation_folder_cleanup : BOOLEAN,
                copy_instead_of_move : BOOLEAN,
                purchased_how_long_ago : {0, DefaultPurchasedHowLongAgo}]
    /\ today \in Todays
    /\ manifest_status \in {"ok", "missing"}
    /\ books \in (IF manifest_status = "ok"
                  THEN UNION {[1..n -> {BookB1, BookB5}] : n \in 0..MaxBooks}
                  ELSE {<<>>})
    /\ idx = 0
    /\ pc = "start"
    /\ exit_code = -1
    /\ \E present \in SUBSET {SrcB1, SrcB5} :
          /\ files = [q \in present |-> [size |-> SrcSize, data |-> "download"]]
          /\ dirs = {SourceDir, DestDir} \cup DirsOf(present)
    /\ placed = <<>>
    /\ log = <<>>
    /\ book_data = NoBookData
    /\ hist = <<>>
    /\ files0 = files
    /\ dirs0 = dirs
    /\ MainIdle
    /\ FnIdle

SpecShared == InitShared /\ [][Next]_vars

(***************************************************************************)
(* Properties.                                                             *)
(***************************************************************************)
\* the positions of the records examined so far
Examined == 1..Len(hist)

\* the log entries written while record i was processed
LogOf(i) ==
    LET last == IF i < Len(hist) THEN hist[i + 1].log_before ELSE Len(log)
    IN  {log[k] : k \in (hist[i].log_before + 1)..last}

\* record i was normalised and its purchase date parsed
Normalised(i) == hist[i].outcome \notin {"norm_error", "date_error"}

\* the candidate source file of a record of the pools, written out
ExpectedSrc(book) ==
    CASE book \in {BookA1, BookA4} -> SrcA1
      [] book \in {BookA2, BookA3} -> SrcA2
      [] book \in {BookB1, BookB3} -> SrcB1
      [] book \in {BookB2, BookB4} -> SrcB2

\* the destination file of a record of the pools, written out
ExpectedDst(book) ==
    CASE book = BookA1 -> DstA1
      [] book \in {BookA2, BookA3} -> DstA2
      [] book \in {BookB1, BookB3} -> DstB1
      [] book \in {BookB2, BookB4} -> DstB2
      [] book = BookA4 -> <<>>

\* C1: after move_audio_book_files returns, every entry of the returned list
\* belongs to a record whose audio file was transferred in this run: the
\* transfer step did not raise and the destination path holds the content the
\* source file had.
C1_ListedWereTransferred ==
    pc = "returned" =>
        \A i \in Examined :
            hist[i].listed =>
                /\ hist[i].outcome \in {"placed", "cleanup_error"}
                /\ ContentAt(hist[i].files_after, hist[i].dst_path)
                       = ContentAt(hist[i].files_before, hist[i].src_path)

\* C2: when the manifest was read, no exception of a record ends the run: the
\* exception is logged as an ERROR, the records are examined one by one in
\* manifest order, each exactly once, the loop position stays within the
\* manifest (so a next step is always possible), and the run returns after the
\* last record.
C2_PerRecordIsolation ==
    manifest_status = "ok" =>
        /\ pc \in {"start", "loop", "returned"}
        /\ exit_code = -1
        /\ Len(hist) = (IF pc = "start" THEN 0 ELSE idx - 1)
        /\ Len(hist) <= Len(books)
        /\ \A i \in Examined : hist[i].idx = i
        /\ \A i \in Examined :
              hist[i].exc # NoExc =>
                  \E e \in LogOf(i) : e.kind = "ERROR" /\ e.exc = hist[i].exc
        /\ (pc = "returned" => Len(hist) = Len(books))
        /\ (pc = "loop" => idx \in 1..(Len(books) + 1))

\* C2 witness: a record raised and the record after it was placed.
C2_Witness ==
    /\ pc = "returned"
    /\ \E i \in Examined :
          /\ hist[i].exc # NoExc
          /\ i < Len(hist)
          /\ hist[i + 1].outcome = "placed"

\* C3: a manifest that is missing, unreadable or not valid JSON ends the process
\* with a non-zero exit status before any record is processed: no file and no
\* directory changes, and no list is returned.
C3_ManifestFailureIsFatal ==
    (manifest_status # "ok" /\ pc # "start") =>
        /\ pc \in {"exited", "crashed"}
        /\ exit_code > 0
        /\ hist = <<>>
        /\ placed = <<>>
        /\ files = files0
        /\ dirs = dirs0

\* C3 witness: the manifest was not valid JSON, audio files were waiting in the
\* source directory, and the process has exited.
C3_Witness ==
    /\ manifest_status = "invalid_json"
    /\ pc = "exited"
    /\ \E q \in DOMAIN files0 : IsPrefix(SourceDir, q)

\* C4: with a threshold N > 0 the recency filter skips a record exactly when its
\* purchase date is strictly earlier than today minus N days; a skipped record is
\* not listed and touches nothing; a record bought on the threshold date passes;
\* a record 10 days old is skipped when N = 7, and a run of such records returns
\* the empty list and moves no file.
C4_RecencyFilter ==
    cfg.purchased_how_long_ago > 0 =>
        /\ \A i \in Examined :
              Normalised(i) =>
                  /\ hist[i].outcome = "too_old"
                        <=> hist[i].purchase_ord < today - cfg.purchased_how_long_ago
                  /\ hist[i].outcome = "too_old" =>
                        /\ ~hist[i].listed
                        /\ hist[i].files_after = hist[i].files_before
                        /\ hist[i].dirs_after = hist[i].dirs_before
        /\ \A i \in Examined :
              (today = Ordinal(2024, 3, 5) /\ cfg.purchased_how_long_ago = 7) =>
                  /\ books[i] \in {BookA3, BookB4} => hist[i].outcome = "too_old"
                  /\ books[i] \in {BookA1, BookB2} => hist[i].outcome # "too_old"
        /\ (/\ pc = "returned"
            /\ cfg.purchased_how_long_ago = 7
            /\ \A i \in Examined : Normalised(i) /\ hist[i].purchase_ord = today - 10)
              => placed = <<>> /\ files = files0

\* C4 witness: in one run with N = 7 a record 10 days old was skipped and a
\* record bought on the threshold date was placed.
C4_Witness ==
    /\ cfg.purchased_how_long_ago = 7
    /\ \E i \in Examined :
          hist[i].outcome = "too_old" /\ hist[i].purchase_ord = today - 10
    /\ \E j \in Examined :
          hist[j].outcome = "placed" /\ hist[j].purchase_ord = today - 7

\* C5: with a threshold of zero the recency filter is disabled: no record is
\* skipped for its age, however long ago it was purchased.
C5_ZeroDisablesFilter ==
    cfg.purchased_how_long_ago = 0 =>
        \A i \in Examined : hist[i].outcome # "too_old"

\* C6: when a file exists at the destination path and the source file is not
\* larger than it (equal sizes included), the record is skipped: it is not
\* listed, the destination file is unchanged and the source file stays.
C6_NotLargerIsSkipped ==
    \A i \in Examined :
        LET h == hist[i]
        IN  (/\ h.dst_path \in DOMAIN h.files_before
             /\ h.src_path \in DOMAIN h.files_before
             /\ h.files_before[h.src_path].size <= h.files_before[h.dst_path].size)
            => /\ ~h.listed
               /\ ContentAt(h.files_after, h.dst_path) = h.files_before[h.dst_path]
               /\ ContentAt(h.files_after, h.src_path) = h.files_before[h.src_path]

\* C7: when a file exists at the destination path and the source file is
\* strictly larger, the transfer overwrites it: the destination file has the
\* source file's content and the record is listed.
C7_LargerReplaces ==
    \A i \in Examined :
        LET h == hist[i]
        IN  (/\ h.dst_path \in DOMAIN h.files_before
             /\ h.src_path \in DOMAIN h.files_before
             /\ h.files_before[h.src_path].size > h.files_before[h.dst_path].size)
            => /\ h.listed
               /\ ContentAt(h.files_after, h.dst_path) = h.files_before[h.src_path]

\* C8: when the candidate source file (source_dir/filename+ext for tool A,
\* source_dir/libation_book_folder/filename+ext for tool B) does not exist, the
\* record is skipped silently: not listed, no directory created, no file
\* changed, no ERROR entry logged.
C8_MissingSourceSkipped ==
    \A i \in Examined :
        LET h == hist[i]
        IN  (/\ Normalised(i)
             /\ h.outcome \notin {"too_old", "path_error"}
             /\ ExpectedSrc(books[i]) \notin DOMAIN h.files_before)
            => /\ h.src_path = ExpectedSrc(books[i])
               /\ ~h.listed
               /\ h.dirs_after = h.dirs_before
               /\ h.files_after = h.files_before
               /\ \A e \in LogOf(i) : e.kind # "ERROR"

\* C8 witness: a recent record was examined while its source file was absent
\* and its destination directory did not exist yet.
C8_Witness ==
    \E i \in Examined :
        /\ Normalised(i)
        /\ hist[i].outcome \notin {"too_old", "path_error"}
        /\ ExpectedSrc(books[i]) \notin DOMAIN hist[i].files_before
        /\ \A q \in hist[i].dirs_before : ~IsPrefix(q, ExpectedDst(books[i])) \/ q = DestDir

C10_CopyKeepsSource ==
    cfg.copy_instead_of_move =>
        \A i \in Examined :
            LET h == hist[i]
            IN  h.outcome \in {"placed", "cleanup_error"} =>
                    /\ ContentAt(h.files_after, h.src_path) = h.files_before[h.src_path]
                    /\ ContentAt(h.files_after, h.dst_path) = h.files_before[h.src_path]

\* the text strptime must be given for an argument: date and time, with the
\* fraction of the argument or ".0"
ExpectedTimestamp(a) ==
    a.date \o <<"T">> \o a.time \o (IF a.frac = <<>> THEN <<".", "0">> ELSE a.frac)

\* C17: for every input YYYY-MM-DDTHH:MM:SS with an optional fraction and an
\* optional suffix Z, +HH:MM or -HH:MM (no suffix and leap days included),
\* _parse_date returns the first ten characters; the suffix is cut off as an
\* offset only where its sign stands at index 19 or later, so the hyphens of
\* the date never cut the timestamp.
C17_ParseDateReturnsDatePortion ==
    pc \in {"fn_date_parsed", "fn_done"} =>
        /\ ret.parse.exc = NoExc
        /\ ret.parse.value = SubSeq(DateStr(arg), 1, 10)
        /\ ret.parse.value = arg.date
        /\ ret.parse.text = ExpectedTimestamp(arg)
        /\ (arg.suffix \in {<<>>, <<"Z">>} =>
                RIndex(ret.parse.text, "-") < 19 /\ ~Contains(DateStr(arg), "+"))

\* C17 witness: _parse_date was called on a leap day without fraction and
\* with a negative offset, and on the same day without any suffix; this state
\* is one of the two.
C17_Witness ==
    /\ pc = "fn_date_parsed"
    /\ arg.date = <<"2", "0", "2", "4", "-", "0", "2", "-", "2", "9">>
    /\ arg.frac = <<>>
    /\ arg.suffix \in {<<>>, <<"-", "0", "5", ":", "0", "0">>}
    /\ ret.parse.value = <<"2", "0", "2", "4", "-", "0", "2", "-", "2", "9">>

\* C18: for every DateAdded the Date Normalizer accepts, the tool-B normaliser
\* does not fail and its purchase_date equals _parse_date(DateAdded).
C18_LibationDateEqualsParseDate ==
    pc = "fn_done" =>
        (ret.parse.exc = NoExc =>
            /\ ret.libation.exc = NoExc
            /\ ret.libation.data.purchase_date = ret.parse.value)

\* the raw author up to its first comma, without the blanks around it
TrimmedBeforeComma(author) ==
    LET first == CHOOSE i \in Positions(author, ",") :
                    \A j \in Positions(author, ",") : i <= j
    IN  RStrip(LStrip(SubSeq(author, 1, first - 1)))

\* C20: for every tool-A record whose raw author contains a comma, the
\* normalised author is sanitize_name of the trimmed text before the first
\* comma ("Test Author, Jr." gives "Test_Author"), and the author directory of
\* the destination path is that same value.
C20_AuthorBeforeFirstComma ==
    (pc = "returned" /\ Len(hist) = 1 /\ Contains(arg, ",")) =>
        LET expected == sanitize_name(TrimmedBeforeComma(arg))
        IN  /\ book_data.author = expected
            /\ hist[1].outcome = "placed"
            /\ hist[1].dst_path
                   = Join(Join(Join(DestDir, expected), <<"U">>),
                          <<"g", ".", "m", "4", "b">>)
            /\ hist[1].dst_path \in DOMAIN files
            /\ (arg = TestAuthorJr =>
                    book_data.author = <<"T", "e", "s", "t", "_", "A", "u", "t", "h", "o", "r">>)

\* C20 witness: the record of "Test Author, Jr." was placed under Test_Author.
C20_Witness ==
    /\ pc = "returned"
    /\ arg = TestAuthorJr
    /\ <<<<"d", "s", "t">>, <<"T", "e", "s", "t", "_", "A", "u", "t", "h", "o", "r">>,
         <<"U">>, <<"g", ".", "m", "4", "b">>>> \in DOMAIN files

\* C19: for a tool-B record whose Title has a colon, the source subfolder is
\* "<Title up to the first colon, trimmed> [ProductId]" while the file name
\* keeps the colon, so the candidate source path lies under the truncated
\* folder and a file stored there is found and placed.
C19_ColonTitleFolderTruncated ==
    \A i \in Examined :
        LET h == hist[i]
        IN  (/\ books[i] \in {BookB2, BookB4}
             /\ Normalised(i)
             /\ h.outcome # "too_old")
            => /\ h.src_path = SrcB2Truncated
               /\ (SrcB2Truncated \in DOMAIN h.files_before
                   /\ DstB2 \notin DOMAIN h.files_before)
                  => /\ h.outcome = "placed"
                     /\ ContentAt(h.files_after, DstB2)
                            = h.files_before[SrcB2Truncated]

\* the source subfolder of the record examined at position i of a tool-B run
SourceSubfolder(i) == SubSeq(hist[i].src_path, 1, Len(SourceDir) + 1)

\* C11: in a tool-B run the source subfolder of a book is removed exactly when
\* its audio file was transferred, the cleanup flag is set and the operation is
\* a move; when it is removed the file is already at its destination; it is
\* never removed in copy mode, with the flag unset, or for a record that was
\* not transferred.
C11_CleanupOnlyAfterMove ==
    cfg.download_program = "Libation" =>
        \A i \in Examined :
            LET h == hist[i]
                removed == /\ SourceSubfolder(i) \in h.dirs_before
                           /\ SourceSubfolder(i) \notin h.dirs_after
            IN  h.src_path # <<>> =>
                    /\ removed <=> /\ h.outcome \in {"placed", "cleanup_error"}
                                   /\ cfg.libation_folder_cleanup
                                   /\ ~cfg.copy_instead_of_move
                    /\ removed => ContentAt(h.files_after, h.dst_path)
                                      = h.files_before[h.src_path]

\* the positions of the records that were appended to the returned list
ListedPositions == {i \in Examined : hist[i].listed}

\* the short title of a manifest record
ShortTitleOf(book) ==
    IF cfg.download_program = "OpenAudible" THEN Get(book, "title_short", None)
    ELSE Get(book, "Title", None)

\* C12: the returned list is a subsequence of the manifest: its entries are
\* the placed records in manifest order, no skipped and no failed record is in
\* it, and it is never longer than the manifest.
C12_ListIsSubsequenceOfPlaced ==
    /\ Len(placed) <= Len(books)
    /\ Len(placed) = Cardinality(ListedPositions)
    /\ \A i \in ListedPositions :
          /\ placed[Cardinality({j \in ListedPositions : j <= i})]
                 = ShortTitleOf(books[i])
          /\ hist[i].outcome = "placed"
          /\ hist[i].exc = NoExc
    /\ \A i \in Examined : hist[i].outcome = "placed" => hist[i].listed

\* the calendar date a library item was added on, written out
AddedOn(item) ==
    CASE item.id = <<"i", "1">> -> Ordinal(2024, 3, 5)
      [] item.id = <<"i", "2">> -> Ordinal(2024, 2, 27)

\* the external identifier of a manifest record
AsinOf(book) ==
    IF cfg.download_program = "OpenAudible" THEN Get(book, "asin", None)
    ELSE Get(book, "AudibleProductId", None)

\* the catalog filter has been called on a catalog that was read
FilterCalled ==
    /\ books_from_audiobookshelf.body = "results"
    /\ filter_today # 0

\* C13: when the returned list is not empty and is passed as book_list, the
\* catalog filter does not raise, and it returns exactly the catalog items
\* whose title holds the short title of a placed book, each with that book's
\* asin as its metadata asin.
C13_PlacedBookFilter ==
    (placed # <<>> /\ FilterCalled) =>
        /\ pc \in {"matching", "closed"}
        /\ uncaught = NoExc
        /\ \A k \in 1..Len(most_recent_books) :
              \E i \in ListedPositions :
                  /\ IsSubstring(ShortTitleOf(books[i]),
                                 most_recent_books[k].media.metadata.title)
                  /\ most_recent_books[k].media.metadata.asin = AsinOf(books[i])
        /\ \A j \in 1..Len(books_from_audiobookshelf.results) :
              (\E i \in ListedPositions :
                  IsSubstring(ShortTitleOf(books[i]),
                              books_from_audiobookshelf.results[j].media.metadata.title))
              => \E k \in 1..Len(most_recent_books) :
                    most_recent_books[k].id = books_from_audiobookshelf.results[j].id

\* the items of the catalog that were added on or after the given date
AddedSince(results, date) ==
    LET Kept(item) == AddedOn(item) >= date
    IN  SelectSeq(results, Kept)

\* the match requests that were sent
MatchCalls ==
    LET IsMatch(c) == c.call = "match"
    IN  SelectSeq(calls, IsMatch)

C15_RemoteFailuresAreBestEffort ==
    /\ \A k \in 1..Len(calls) :
          (calls[k].call \in {"scan", "match"} /\ calls[k].outcome # "ok") =>
              /\ ~(pc = "crashed" /\ k = Len(calls))
              /\ uncaught = NoExc \/ k < Len(calls)
    /\ pc = "closed" => Len(MatchCalls) = Len(most_recent_books)
    /\ pc \notin {"start", "loop"} =>
          /\ files = (IF hist = <<>> THEN files0 ELSE hist[Len(hist)].files_after)
          /\ Len(placed) = Cardinality(ListedPositions)

\* C16: the exit status is non-zero only when the manifest is missing or
\* invalid: a run whose manifest was read ends with status zero, whatever its
\* records and its remote calls did.
C16_ExitCodeOnlyForManifest ==
    /\ exit_code > 0 => manifest_status # "ok"
    /\ (manifest_status = "ok" /\ pc \in {"closed", "crashed", "exited"})
          => exit_code = 0

\* the characters an output of sanitize_name may hold, written out
OutputCharacters ==
    {"a", "b", "c", "d", "e", "f", "g", "h", "i", "j", "k", "l", "m",
     "n", "o", "p", "q", "r", "s", "t", "u", "v", "w", "x", "y", "z",
     "A", "B", "C", "D", "E", "F", "G", "H", "I", "J", "K", "L", "M",
     "N", "O", "P", "Q", "R", "S", "T", "U", "V", "W", "X", "Y", "Z",
     "0", "1", "2", "3", "4", "5", "6", "7", "8", "9", "_", "."}

\* the directory segments of the destination path of the record at position i
DirectorySegments(i) ==
    {hist[i].dst_path[k] : k \in (Len(DestDir) + 1)..(Len(hist[i].dst_path) - 1)}

\* C21: the output of sanitize_name holds only alphanumeric characters,
\* underscores and periods, and so the author, series and title directories
\* of a placed record hold no path separator, comma, space or colon.
C21_SanitizedSegmentsAreSafe ==
    pc # "fn_sanitize" =>
        /\ \A k \in 1..Len(ret.value) : ret.value[k] \in OutputCharacters
        /\ \A i \in Examined :
              /\ hist[i].outcome = "placed"
              /\ \A seg \in DirectorySegments(i) :
                    \A k \in 1..Len(seg) :
                        /\ seg[k] \in OutputCharacters
                        /\ seg[k] \notin {"/", ",", " ", ":"}
              /\ ret.value # <<>> => ret.value \in DirectorySegments(i)

\* C21 witness: a name with a separator, a colon and a blank was sanitised
\* and the record named by it was placed.
C21_Witness ==
    /\ pc = "returned"
    /\ arg = <<"/", ":", " ">>
    /\ hist[1].outcome = "placed"
    /\ <<"_">> \in DirectorySegments(1)

\* what sanitize_name makes of one character
SanitizedCharacter(c) ==
    IF c = "," THEN <<>>
    ELSE IF c = " " THEN <<"_">>
    ELSE IF c \in OutputCharacters THEN <<c>>
    ELSE <<>>

RECURSIVE SanitizedByCharacter(_)
\* the characters of a name, each sanitised on its own, in their order
SanitizedByCharacter(name) ==
    IF name = <<>> THEN <<>>
    ELSE SanitizedCharacter(Head(name)) \o SanitizedByCharacter(Tail(name))

ExpectedDirectory(a) ==
    IF a.series_dir = <<>> \/ a.series_dir = None
    THEN <<<<"d", "s", "t">>, a.author_dir, a.book_title_dir>>
    ELSE <<<<"d", "s", "t">>, a.author_dir, a.series_dir, a.book_title_dir>>

\* C23: make_directory_structure returns destination/author/series/title, or
\* destination/author/title when the series is empty or absent; afterwards
\* that directory and its ancestors exist; a second call with the same
\* arguments raises nothing, returns the same path and leaves the tree as it
\* is. (No regular file stands on the path.)
C23_DirectoryBuilderIdempotent ==
    (pc \in {"fn_mkdir_again", "fn_done"}
     /\ \A q \in Prefixes(ExpectedDirectory(arg)) : q \notin DOMAIN files) =>
        /\ ret[1].exc = NoExc
        /\ ret[1].path = ExpectedDirectory(arg)
        /\ \A q \in Prefixes(ExpectedDirectory(arg)) : q \in dirs
        /\ dirs0 \subseteq dirs
        /\ pc = "fn_done" =>
              /\ ret[2].exc = NoExc
              /\ ret[2].path = ret[1].path
              /\ ret[2].dirs = ret[1].dirs
              /\ dirs = ret[1].dirs

\* C23 witness: the builder was called twice for a series, and twice for an
\* absent series, on a tree that had none of the directories; this state is
\* the end of one of these runs.
C23_Witness ==
    /\ pc = "fn_done"
    /\ arg.series_dir \in {None, <<"S">>}
    /\ dirs0 = {SourceDir, DestDir}
    /\ ret[2].path = ExpectedDirectory(arg)
    /\ ExpectedDirectory(arg) \in dirs

\* the DateAdded of a tool-B record cannot be parsed
UnparseableDateAdded(book) ==
    LET DateAdded == Get(book, "DateAdded", None)
    IN  DateAdded # None /\ ~ParseDateTime(LibationDateText(DateAdded)).ok

\* C24: a tool-B record whose DateAdded cannot be parsed is fatal for the run:
\* the process exits with that record and no later record is processed.
C24_UnparseableDateIsFatal ==
    cfg.download_program = "Libation" =>
        \A i \in Examined :
            (UnparseableDateAdded(books[i]) /\ hist[i].outcome = "norm_error") =>
                /\ pc \in {"crashed", "exited"}
                /\ exit_code = 1
                /\ Len(hist) = i

\* what the normaliser of the run makes of a manifest record
NormalisedRecord(book) ==
    IF cfg.download_program = "OpenAudible" THEN process_open_audible_book_json(book)
    ELSE process_libation_book_json(book)

\* C26: when processing record i raises, the ERROR entry names the title of
\* record i when record i was normalised and "Unknown Book" when its
\* normalisation failed; it never names the title of an earlier record.
C26_ErrorNamesOwnTitle ==
    \A i \in Examined :
        \A e \in LogOf(i) :
            e.kind = "ERROR" =>
                e.title = IF hist[i].outcome = "norm_error" THEN <<"Unknown Book">>
                          ELSE Str(NormalisedRecord(books[i]).data.title)

\* C25: in every run of main the steps come in this order: all manifest
\* records are processed, the rescan is triggered, the catalog is fetched,
\* the filter is applied to the placement list, one match request is sent per
\* filtered item in filter order, the log is closed. No request is sent
\* before placement has finished and the rescan is triggered exactly once.
C25_MainStepOrder ==
    /\ calls # <<>> =>
          /\ pc \notin {"start", "loop", "exited"}
          /\ manifest_status = "ok"
          /\ Len(hist) = Len(books)
          /\ idx = Len(books) + 1
    /\ \A k \in 1..Len(calls) :
          /\ calls[k].call = "scan" <=> k = 1
          /\ calls[k].call = "get" <=> k = 2
          /\ calls[k].call = "match" <=> k >= 3
          /\ k >= 3 =>
                /\ filter_today # 0
                /\ k - 2 <= Len(most_recent_books)
                /\ calls[k].id = most_recent_books[k - 2].id
    /\ pc \in {"scanned", "fetched", "matching", "closed"} =>
          /\ Len(calls) >= 1
          /\ calls[1].call = "scan"
    /\ pc \in {"fetched", "matching", "closed"} => Len(calls) >= 2
    /\ filter_today # 0 =>
          /\ Len(calls) >= 2
          /\ pc \in {"matching", "closed", "crashed"}
    /\ pc = "closed" =>
          /\ filter_today # 0
          /\ Len(calls) = 2 + Len(most_recent_books)

\* C25 witness: a run of two manifest records has closed its log after the
\* rescan, the catalog request and two match requests for two different items.
C25_Witness ==
    /\ pc = "closed"
    /\ Len(hist) = 2
    /\ Len(calls) = 4
    /\ calls[1].call = "scan"
    /\ calls[2].call = "get"
    /\ calls[3].id # calls[4].id
    /\ calls[3].id = most_recent_books[1].id

\* the audio file q of the source tree is where it was, or at the destination
\* path of a record whose source file it was, with the content it had
KeptOrPlaced(q) ==
    \/ ContentAt(files, q) = ContentAt(files0, q)
    \/ \E i \in Examined :
          /\ hist[i].src_path = q
          /\ hist[i].dst_path # <<>>
          /\ ContentAt(files, hist[i].dst_path) = ContentAt(files0, q)

\* C27: no audio file is lost by a run: whatever the manifest (several tool-B
\* records of one source subfolder included) and the flags, every audio file
\* that was under the source directory before the run is afterwards still at
\* its source path or at its destination path with the same content.
C27_NoAudioFileLost ==
    pc = "returned" =>
        \A q \in DOMAIN files0 :
            IsPrefix(SourceDir, q) => KeptOrPlaced(q)

\* the audio file of the record at position i was moved to the library
Transferred(i) == hist[i].outcome \in {"placed", "cleanup_error"}

\* C28: in move mode each source file is transferred at most once per run:
\* of two records that resolve to the same source file the first is placed and
\* the second is skipped because its source is not present, without an error
\* and without a file change, so the returned list holds at most one entry
\* per source file.
C28_SourceFileTransferredOnce ==
    ~cfg.copy_instead_of_move =>
        \A i \in Examined : \A j \in Examined :
            (i < j /\ hist[i].src_path # <<>>
                   /\ hist[j].src_path = hist[i].src_path) =>
                /\ ~(Transferred(i) /\ Transferred(j))
                /\ Transferred(i) =>
                      /\ hist[j].outcome = "no_source"
                      /\ hist[j].exc = NoExc
                      /\ hist[j].files_after = hist[j].files_before
                /\ ~(hist[i].listed /\ hist[j].listed)

\* the files of a tree that lie under the given directory, with their content
FilesUnder(fs, dir) == {<<q, fs[q]>> : q \in {f \in DOMAIN fs : IsPrefix(dir, f)}}

\* C29: cleanup never precedes or replaces a failed transfer: when the
\* transfer of a tool-B record's audio file raises, the source subfolder and
\* every file in it are as they were, also when the cleanup flag is set.
C29_NoCleanupAfterFailedTransfer ==
    cfg.download_program = "Libation" =>
        \A i \in Examined :
            hist[i].outcome = "move_error" =>
                /\ SourceSubfolder(i) \in hist[i].dirs_after
                /\ FilesUnder(hist[i].files_after, SourceSubfolder(i))
                       = FilesUnder(hist[i].files_before, SourceSubfolder(i))
                /\ FilesUnder(hist[i].files_after, SourceSubfolder(i)) # {}
                /\ \A e \in LogOf(i) : e.kind = "ERROR" => e.exc = hist[i].exc

\* C29 witness: with the cleanup flag set, the move of a tool-B record raised
\* because the destination file exists, and the run went on to its end.
C29_Witness ==
    /\ pc = "returned"
    /\ cfg.download_program = "Libation"
    /\ cfg.libation_folder_cleanup
    /\ \E i \in Examined :
          /\ hist[i].outcome = "move_error"
          /\ hist[i].exc = "shutil.Error"
          /\ hist[i].src_path \in DOMAIN files

RECURSIVE RunRecords(_, _, _, _)
\* the loop of move_audio_book_files over the given records, from the state
\* st = [book_data, files, dirs, placed, log], under the configuration c
RunRecords(records, st, c, now) ==
    IF records = <<>> THEN st
    ELSE LET r == LoopBody(records[1], st.book_data, st.files, st.dirs,
                           st.placed, st.log, c, now)
         IN  RunRecords(Tail(records),
                        [book_data |-> r.book_data, files |-> r.files,
                         dirs |-> r.dirs, placed |-> r.placed,
                         log |-> IF r.exc # NoExc
                                 THEN Append(r.log, LogEntry("ERROR",
                                                 ErrorTitle(r.book_data), r.exc))
                                 ELSE r.log],
                        c, now)

\* the ERROR entries of a log
ErrorEntries(lg) ==
    LET IsError(e) == e.kind = "ERROR"
    IN  SelectSeq(lg, IsError)

\* C30: the cleanup flag has no effect on tool-A runs: with download_program
\* "OpenAudible" a run with libation_folder_cleanup set ends with the same
\* returned list, the same source and destination trees and the same ERROR
\* entries as the same run with the flag unset.
C30_CleanupFlagIgnoredForOpenAudible ==
    (pc = "returned" /\ cfg.download_program = "OpenAudible"
                     /\ cfg.libation_folder_cleanup) =>
        \E unset \in {RunRecords(books,
                                 [book_data |-> NoBookData, files |-> files0,
                                  dirs |-> dirs0, placed |-> <<>>, log |-> <<>>],
                                 [cfg EXCEPT !.libation_folder_cleanup = FALSE],
                                 today)} :
            /\ placed = unset.placed
            /\ files = unset.files
            /\ dirs = unset.dirs
            /\ ErrorEntries(log) = ErrorEntries(unset.log)

====
